---- MODULE Spec2Model ----
(***************************************************************************)
(* A model of tutor/commands/images.py: the image catalog, the vendor      *)
(* filter, the plugin image generator, the build-argument assembly and the *)
(* build / pull / push / printtag handlers.                                *)
(*                                                                         *)
(* Python values are encoded as follows.                                   *)
(*   - a list or a tuple is a sequence; a str is a string;                 *)
(*   - a configuration value is the string of its Python repr ("True",     *)
(*     "False", "None"), an absent key is a key outside DOMAIN;            *)
(*   - a hook payload is [dict |-> BOOLEAN, items |-> sequence]: for a     *)
(*     dict the items are its (image, tag template) pairs in insertion     *)
(*     order, for anything else the payload's elements;                    *)
(*   - an optional str (click's --target) is <<>> for None, <<s>> for s;   *)
(*   - keyword arguments (popen_kwargs) are a function on the set of the   *)
(*     keywords given.                                                     *)
(* A raised exception ends the handler: pc = "failed", error names it.     *)
(***************************************************************************)
EXTENDS Naturals, Sequences, FiniteSets, TLC

VARIABLES
    cmd,            \* the sub-command invoked: build, pull, push, printtag
    image_names,    \* its IMAGE arguments
    opts,           \* build's options
    config,         \* tutor_config.load(context.root)
    hooks,          \* the plugin registry: hook name -> <<[plugin, hook], ...>>
    environ,        \* os.environ
    ambient,        \* os.environ as it was when the command started
    pc,             \* where the handler is
    i,              \* index in image_names of the image being processed
    k,              \* position in the catalog walk of the current loop
    p,              \* iter_plugin_images: position in plugins.iter_hooks(...)
    e,              \* iter_plugin_images: position in hook.items()
    command_args,   \* build's command_args
    popen_kwargs,   \* build_image's popen_kwargs
    extra_dev_args, \* build_image's extra_dev_args
    calls,          \* the backend calls issued so far, in order
    printed,        \* what printtag has printed so far
    rendered,       \* the templates handed to tutor_env.render_str so far
    error,          \* the exception that ended the handler, or "none"
    called,         \* the function applied in isolation, with its arguments
    ret             \* and what it returned

vars == <<cmd, image_names, opts, config, hooks, environ, ambient, pc, i, k, p, e,
          command_args, popen_kwargs, extra_dev_args, calls, printed, rendered,
          error, called, ret>>

----------------------------------------------------------------------------
(* Bounds of the model.                                                    *)

MaxFilters == 2     \* IMAGE arguments per invocation
MaxPlugins == 2     \* plugins registered for a hook
MaxHookItems == 2   \* images a plugin's hook names
MaxArgs == 2        \* --build-arg and --add-host options given

----------------------------------------------------------------------------
(* The catalog.                                                            *)

BASE_IMAGE_NAMES == <<"openedx", "forum">>

DEV_IMAGE_NAMES == <<"openedx-dev">>

VENDOR_IMAGES ==
    <<"caddy", "elasticsearch", "mongodb", "mysql", "nginx", "redis", "smtp">>

Range(s) == {s[j] : j \in DOMAIN s}

\* str.upper() on the vendor names
upper(image) ==
    CASE image = "caddy" -> "CADDY"
      [] image = "elasticsearch" -> "ELASTICSEARCH"
      [] image = "mongodb" -> "MONGODB"
      [] image = "mysql" -> "MYSQL"
      [] image = "nginx" -> "NGINX"
      [] image = "redis" -> "REDIS"
      [] image = "smtp" -> "SMTP"

\* Python's truth value of a configuration value
truthy(v) == v \notin {"False", "None", "0", "''"}

config_get_absent_false(cfg, key) == IF key \in DOMAIN cfg THEN cfg[key] ELSE "False"

\* config.get(key, True)
config_get(cfg, key) == IF key \in DOMAIN cfg THEN cfg[key] ELSE "True"

\* list.remove(x): drops the first occurrence of x
RECURSIVE list_remove(_, _)
list_remove(s, x) ==
    IF s = <<>> THEN <<>>
    ELSE IF Head(s) = x THEN Tail(s)
    ELSE <<Head(s)>> \o list_remove(Tail(s), x)

\* the loop of vendor_image_names from position j on
RECURSIVE vendor_loop(_, _, _)
vendor_loop(cfg, j, vendor_images) ==
    IF j > Len(VENDOR_IMAGES) THEN vendor_images
    ELSE IF ~truthy(config_get(cfg, "RUN_" \o upper(VENDOR_IMAGES[j])))
         THEN vendor_loop(cfg, j + 1, list_remove(vendor_images, VENDOR_IMAGES[j]))
         ELSE vendor_loop(cfg, j + 1, vendor_images)

vendor_image_names(cfg) == vendor_loop(cfg, 1, VENDOR_IMAGES)

all_image_names(cfg) == BASE_IMAGE_NAMES \o vendor_image_names(cfg)

\* images.get_tag(config, name): opaque, a pure function of its arguments
get_tag(cfg, img) == "tag:" \o img

\* tutor_env.render_str(config, template): opaque; every template of the
\* registries below renders (a rendering error is not among the inputs)
render_str(cfg, tmpl) == "rendered:" \o tmpl

\* utils.get_user_id()
get_user_id == 1000

RECURSIVE iter_images_first_only(_, _, _, _)
iter_images_first_only(cfg, image, image_list, j) ==
    IF j > Len(image_list) THEN <<>>
    ELSE LET img == image_list[j]
         IN  IF image \in {img, "all"} THEN << <<img, get_tag(cfg, img)>> >>
             ELSE iter_images_first_only(cfg, image, image_list, j + 1)

\* the generator iter_images, as the list of the pairs it yields
RECURSIVE iter_images_from(_, _, _, _)
iter_images_from(cfg, image, image_list, j) ==
    IF j > Len(image_list) THEN <<>>
    ELSE LET img == image_list[j]
         IN  (IF image \in {img, "all"} THEN << <<img, get_tag(cfg, img)>> >> ELSE <<>>)
             \o iter_images_from(cfg, image, image_list, j + 1)

iter_images(cfg, image, image_list) == iter_images_from(cfg, image, image_list, 1)

----------------------------------------------------------------------------
(* The build-argument assembly of build.                                   *)

\* one "<flag> <value>" pair per value, in the order given
RECURSIVE option_pairs(_, _)
option_pairs(flag, values) ==
    IF values = <<>> THEN <<>>
    ELSE <<flag, Head(values)>> \o option_pairs(flag, Tail(values))

\* Python's truth value of the optional --target
target_given(target) == target # <<>> /\ target[1] # ""

cache_args_both(o) ==
    (IF o.no_cache THEN <<"--no-cache">> ELSE <<>>)
    \o (IF ~o.no_inline_cache THEN <<"--build-arg", "BUILDKIT_INLINE_CACHE=1">>
        ELSE <<>>)

\* "--no-cache", or else the inline cache build argument
cache_args(o) ==
    IF o.no_cache THEN <<"--no-cache">>
    ELSE IF ~o.no_inline_cache THEN <<"--build-arg", "BUILDKIT_INLINE_CACHE=1">>
    ELSE <<>>

build_command_args(o) ==
    cache_args(o)
    \o option_pairs("--build-arg", o.build_args)
    \o option_pairs("--add-host", o.add_hosts)
    \o (IF target_given(o.target) THEN <<"--target", o.target[1]>> ELSE <<>>)

\* "--cache-from <tag>" for every pair that iter_images yields
RECURSIVE cache_from_args(_)
cache_from_args(pairs) ==
    IF pairs = <<>> THEN <<>>
    ELSE <<"--cache-from", Head(pairs)[2]>> \o cache_from_args(Tail(pairs))

dev_args_ignoring_flag(cfg, image, cache_from) ==
    <<"--build-arg", "USERID=" \o ToString(get_user_id)>>
    \o cache_from_args(iter_images(cfg, image, BASE_IMAGE_NAMES))

\* build_image's extra_dev_args
dev_args(cfg, image, cache_from) ==
    <<"--build-arg", "USERID=" \o ToString(get_user_id)>>
    \o (IF cache_from
        THEN cache_from_args(iter_images(cfg, image, BASE_IMAGE_NAMES))
        ELSE <<>>)

no_kwargs == [x \in {} |-> <<>>]

env_aliased(os_environ, set_buildkit) ==
    IF set_buildkit
    THEN LET env == [v \in DOMAIN os_environ \cup {"DOCKER_BUILDKIT"} |->
                        IF v = "DOCKER_BUILDKIT" THEN "1" ELSE os_environ[v]]
         IN  [os_environ |-> env, popen_kwargs |-> [x \in {"env"} |-> env]]
    ELSE [os_environ |-> os_environ, popen_kwargs |-> no_kwargs]

\* the head of build_image: os.environ and popen_kwargs after it
build_image_env(os_environ, set_buildkit) ==
    IF set_buildkit
    THEN LET env == [v \in DOMAIN os_environ \cup {"DOCKER_BUILDKIT"} |->
                        IF v = "DOCKER_BUILDKIT" THEN "1" ELSE os_environ[v]]
         IN  [os_environ |-> os_environ, popen_kwargs |-> [x \in {"env"} |-> env]]
    ELSE [os_environ |-> os_environ, popen_kwargs |-> no_kwargs]

----------------------------------------------------------------------------
(* The handlers.                                                           *)

image == image_names[i]

\* the hook each command hands to iter_plugin_images
hook_name ==
    CASE cmd = "build" -> "build-image"
      [] cmd = "pull" -> "remote-image"
      [] cmd = "push" -> "remote-image"
      [] cmd = "printtag" -> "build-image"

\* plugins.iter_hooks(config, hook_name)
iter_hooks(name) == hooks[name]

build_image_order_dev_first == <<"base", "dev_args", "plugin_hooks">>

\* the loops of build_image, in the order it runs them
build_image_order == <<"base", "plugin_hooks", "dev_args">>

\* the loops of pull_image, push_image and printtag's body
remote_order == <<"base", "plugin_hooks">>

loops == IF cmd = "build" THEN build_image_order ELSE remote_order

\* what follows loop ph: the next loop, or the handler's next image
after(ph) ==
    LET j == CHOOSE n \in DOMAIN loops : loops[n] = ph
    IN  IF j < Len(loops) THEN loops[j + 1] ELSE "next_image"

goto(ph) ==
    IF ph = "next_image"
    THEN pc' = "loop" /\ i' = i + 1 /\ k' = k /\ p' = p
    ELSE pc' = ph /\ i' = i /\ k' = 1 /\ p' = 1

after_call_swallowed(ok, next) == next

\* a backend call that fails raises, and nothing catches it
after_call(ok, next) == IF ok THEN next ELSE "failed"

\* images.build / images.pull / images.push: the call is issued, and fails or not
backend(op, src, img, path, tag, args, kwargs, ok) ==
    /\ calls' = Append(calls, [op |-> op, src |-> src, fi |-> i, img |-> img,
                               path |-> path, tag |-> tag, args |-> args,
                               kwargs |-> kwargs, ok |-> ok])
    /\ error' = IF after_call(ok, "next") = "failed"
                THEN "BackendExecutionError" ELSE error

inputs == <<cmd, image_names, opts, config, hooks, ambient>>
isolated == <<called, ret>>

Build ==
    /\ pc = "start" /\ cmd = "build"
    /\ command_args' = build_command_args(opts)
    /\ pc' = "loop" /\ i' = 1
    /\ UNCHANGED <<inputs, isolated, environ, k, p, e, popen_kwargs, extra_dev_args,
                   calls, printed, rendered, error>>

Pull ==
    /\ pc = "start" /\ cmd = "pull"
    /\ pc' = "loop" /\ i' = 1
    /\ UNCHANGED <<inputs, isolated, environ, k, p, e, command_args, popen_kwargs,
                   extra_dev_args, calls, printed, rendered, error>>

Push ==
    /\ pc = "start" /\ cmd = "push"
    /\ pc' = "loop" /\ i' = 1
    /\ UNCHANGED <<inputs, isolated, environ, k, p, e, command_args, popen_kwargs,
                   extra_dev_args, calls, printed, rendered, error>>

Printtag ==
    /\ pc = "start" /\ cmd = "printtag"
    /\ pc' = "loop" /\ i' = 1
    /\ UNCHANGED <<inputs, isolated, environ, k, p, e, command_args, popen_kwargs,
                   extra_dev_args, calls, printed, rendered, error>>

\* the handler's loop over image_names is exhausted
Return ==
    /\ pc = "loop" /\ i > Len(image_names)
    /\ pc' = "done"
    /\ UNCHANGED <<inputs, isolated, environ, i, k, p, e, command_args, popen_kwargs,
                   extra_dev_args, calls, printed, rendered, error>>

\* build calls build_image, which prepares popen_kwargs
BuildImage ==
    /\ pc = "loop" /\ cmd = "build" /\ i <= Len(image_names)
    /\ LET r == build_image_env(environ, ~opts.no_buildkit)
       IN  environ' = r.os_environ /\ popen_kwargs' = r.popen_kwargs
    /\ pc' = "base" /\ k' = 1
    /\ UNCHANGED <<inputs, isolated, i, p, e, command_args, extra_dev_args, calls,
                   printed, rendered, error>>

\* pull, push and printtag enter pull_image, push_image, the loop body
NextImage ==
    /\ pc = "loop" /\ cmd # "build" /\ i <= Len(image_names)
    /\ pc' = "base" /\ k' = 1
    /\ UNCHANGED <<inputs, isolated, environ, i, p, e, command_args, popen_kwargs,
                   extra_dev_args, calls, printed, rendered, error>>

\* build_image's loop over the base images
BuildBase ==
    /\ pc = "base" /\ cmd = "build"
    /\ LET pairs == iter_images(config, image, BASE_IMAGE_NAMES)
       IN  IF k > Len(pairs)
           THEN goto(after("base")) /\ UNCHANGED <<calls, error>>
           ELSE \E ok \in BOOLEAN :
                   /\ backend("build", "base", pairs[k][1], <<"build", pairs[k][1]>>,
                              pairs[k][2], command_args, popen_kwargs, ok)
                   /\ pc' = after_call(ok, "base")
                   /\ k' = k + 1 /\ UNCHANGED <<i, p>>
    /\ UNCHANGED <<inputs, isolated, environ, e, command_args, popen_kwargs,
                   extra_dev_args, printed, rendered>>

push_image_list_with_vendors == all_image_names(config)

\* the list push_image walks
push_image_list == BASE_IMAGE_NAMES

\* the list pull_image walks
pull_image_list == all_image_names(config)

\* pull_image's loop over the base and vendor images
PullCatalog ==
    /\ pc = "base" /\ cmd = "pull"
    /\ LET pairs == iter_images(config, image, pull_image_list)
       IN  IF k > Len(pairs)
           THEN goto(after("base")) /\ UNCHANGED <<calls, error>>
           ELSE \E ok \in BOOLEAN :
                   /\ backend("pull", "catalog", pairs[k][1], <<>>, pairs[k][2],
                              <<>>, no_kwargs, ok)
                   /\ pc' = after_call(ok, "base")
                   /\ k' = k + 1 /\ UNCHANGED <<i, p>>
    /\ UNCHANGED <<inputs, isolated, environ, e, command_args, popen_kwargs,
                   extra_dev_args, printed, rendered>>

\* push_image's loop over the base images
PushBase ==
    /\ pc = "base" /\ cmd = "push"
    /\ LET pairs == iter_images(config, image, push_image_list)
       IN  IF k > Len(pairs)
           THEN goto(after("base")) /\ UNCHANGED <<calls, error>>
           ELSE \E ok \in BOOLEAN :
                   /\ backend("push", "catalog", pairs[k][1], <<>>, pairs[k][2],
                              <<>>, no_kwargs, ok)
                   /\ pc' = after_call(ok, "base")
                   /\ k' = k + 1 /\ UNCHANGED <<i, p>>
    /\ UNCHANGED <<inputs, isolated, environ, e, command_args, popen_kwargs,
                   extra_dev_args, printed, rendered>>

\* printtag's loop over the base images
PrinttagBase ==
    /\ pc = "base" /\ cmd = "printtag"
    /\ LET pairs == iter_images(config, image, BASE_IMAGE_NAMES)
       IN  IF k > Len(pairs)
           THEN goto(after("base")) /\ printed' = printed
           ELSE /\ printed' = Append(printed, pairs[k][2])
                /\ k' = k + 1 /\ UNCHANGED <<pc, i, p>>
    /\ UNCHANGED <<inputs, isolated, environ, e, command_args, popen_kwargs,
                   extra_dev_args, calls, rendered, error>>

\* isinstance(hook, dict)
is_dict(hook) == hook.dict

\* iter_plugin_images resumes at its loop over the plugins' hooks: the generator
\* is exhausted, or it raises on a hook that is no dict, or it enters the hook
IterPluginHooks ==
    /\ pc = "plugin_hooks"
    /\ LET registered == iter_hooks(hook_name)
       IN  IF p > Len(registered)
           THEN goto(after("plugin_hooks")) /\ UNCHANGED <<e, error>>
           ELSE IF ~is_dict(registered[p].hook)
           THEN /\ pc' = "failed" /\ error' = "InvalidHook"
                /\ UNCHANGED <<i, k, p, e>>
           ELSE /\ pc' = "plugin_items" /\ e' = 1
                /\ UNCHANGED <<i, k, p, error>>
    /\ UNCHANGED <<inputs, isolated, environ, command_args, popen_kwargs,
                   extra_dev_args, calls, printed, rendered>>

\* what each command does with a triple that iter_plugin_images yields
plugin_body(plugin, img, tag, ok) ==
    CASE cmd = "build" ->
            /\ backend("build", "plugin", img, <<"plugins", plugin, "build", img>>,
                       tag, command_args, popen_kwargs, ok)
            /\ pc' = after_call(ok, "plugin_items")
            /\ printed' = printed
      [] cmd = "pull" ->
            /\ backend("pull", "plugin", img, <<>>, tag, <<>>, no_kwargs, ok)
            /\ pc' = after_call(ok, "plugin_items")
            /\ printed' = printed
      [] cmd = "push" ->
            /\ backend("push", "plugin", img, <<>>, tag, <<>>, no_kwargs, ok)
            /\ pc' = after_call(ok, "plugin_items")
            /\ printed' = printed
      [] cmd = "printtag" ->
            /\ ok
            /\ printed' = Append(printed, tag)
            /\ UNCHANGED <<pc, calls, error>>

\* iter_plugin_images resumes at its loop over the hook's items: the hook is
\* exhausted, or the item is skipped, or its tag is rendered and the triple
\* yielded to the caller's loop body
IterPluginItems ==
    /\ pc = "plugin_items"
    /\ LET plugin == iter_hooks(hook_name)[p].plugin
           items == iter_hooks(hook_name)[p].hook.items
       IN  IF e > Len(items)
           THEN /\ pc' = "plugin_hooks" /\ p' = p + 1
                /\ UNCHANGED <<e, calls, printed, rendered, error>>
           ELSE IF image \in {items[e][1], "all"}
           THEN /\ rendered' = Append(rendered, items[e][2])
                /\ \E ok \in BOOLEAN :
                      plugin_body(plugin, items[e][1], render_str(config, items[e][2]), ok)
                /\ e' = e + 1 /\ p' = p
           ELSE /\ e' = e + 1
                /\ UNCHANGED <<pc, p, calls, printed, rendered, error>>
    /\ UNCHANGED <<inputs, isolated, environ, i, k, command_args, popen_kwargs,
                   extra_dev_args>>

\* build_image computes extra_dev_args
BuildDevArgs ==
    /\ pc = "dev_args"
    /\ extra_dev_args' = dev_args(config, image, ~opts.no_cache_from)
    /\ pc' = "dev" /\ k' = 1
    /\ UNCHANGED <<inputs, isolated, environ, i, p, e, command_args, popen_kwargs,
                   calls, printed, rendered, error>>

\* build_image's loop over the dev images
BuildDev ==
    /\ pc = "dev"
    /\ LET pairs == iter_images(config, image, DEV_IMAGE_NAMES)
       IN  IF k > Len(pairs)
           THEN goto(after("dev_args")) /\ UNCHANGED <<calls, error>>
           ELSE \E ok \in BOOLEAN :
                   /\ backend("build", "dev", pairs[k][1], <<"build", pairs[k][1]>>,
                              pairs[k][2], extra_dev_args \o command_args,
                              popen_kwargs, ok)
                   /\ pc' = after_call(ok, "dev")
                   /\ k' = k + 1 /\ UNCHANGED <<i, p>>
    /\ UNCHANGED <<inputs, isolated, environ, e, command_args, popen_kwargs,
                   extra_dev_args, printed, rendered>>

Next ==
    \/ Build \/ Pull \/ Push \/ Printtag \/ Return \/ BuildImage \/ NextImage
    \/ BuildBase \/ PullCatalog \/ PushBase \/ PrinttagBase
    \/ IterPluginHooks \/ IterPluginItems \/ BuildDevArgs \/ BuildDev

----------------------------------------------------------------------------
(* The inputs.                                                             *)

Commands == {"build", "pull", "push", "printtag"}

\* the IMAGE arguments tried with each command
Filters(c) ==
    CASE c = "build" -> {"all", "openedx", "openedx-dev", "notes"}
      [] c = "pull" -> {"all", "openedx", "mysql", "notes"}
      [] c = "push" -> {"all", "openedx", "mysql", "notes"}
      [] c = "printtag" -> {"all", "openedx", "notes"}

SeqsUpTo(S, n) == UNION {[1..m -> S] : m \in 0..n}

DistinctSeqsUpTo(S, n) ==
    {s \in SeqsUpTo(S, n) : \A a, b \in DOMAIN s : a # b => s[a] # s[b]}

\* the images plugins contribute; "openedx" collides with a base image
PluginImages == <<"notes", "openedx">>

tag_template(img) == "{{ DOCKER_REGISTRY }}" \o img \o ":{{ VERSION }}"

DictHook(n) ==
    [dict |-> TRUE,
     items |-> [j \in 1..n |-> <<PluginImages[j], tag_template(PluginImages[j])>>]]

ListHook == [dict |-> FALSE, items |-> <<"notes">>]

HookPayloads ==
    {ListHook} \cup
    {DictHook(n) : n \in {m \in 1..MaxHookItems : m <= Len(PluginImages)}}

Registries ==
    {[j \in DOMAIN hs |-> [plugin |-> "plugin" \o ToString(j), hook |-> hs[j]]] :
        hs \in SeqsUpTo(HookPayloads, MaxPlugins)}

\* what is registered for the hook the command does not ask for
OtherRegistry ==
    <<[plugin |-> "other",
       hook |-> [dict |-> TRUE, items |-> << <<"decoy", tag_template("decoy")>> >>]]>>

HookNames == {"build-image", "remote-image"}

RegistryFor(name, registered) ==
    [h \in HookNames |-> IF h = name THEN registered ELSE OtherRegistry]

DefaultOpts ==
    [no_cache |-> FALSE, no_inline_cache |-> FALSE, no_buildkit |-> FALSE,
     no_cache_from |-> FALSE, build_args |-> <<>>, add_hosts |-> <<>>,
     target |-> <<>>]

EmptyConfig == [x \in {} |-> "True"]

PullConfigs ==
    {EmptyConfig,
     [x \in {"RUN_MYSQL"} |-> "False"],
     [x \in {"RUN_CADDY", "RUN_REDIS", "RUN_SMTP"} |->
        CASE x = "RUN_CADDY" -> "False" [] x = "RUN_REDIS" -> "True"
          [] x = "RUN_SMTP" -> "None"]}

BareEnv == [x \in {"HOME"} |-> "/root"]

AmbientEnvs ==
    {BareEnv, [x \in {"HOME", "DOCKER_BUILDKIT"} |-> IF x = "HOME" THEN "/root" ELSE "0"]}

InitLocals ==
    /\ pc = "start" /\ i = 1 /\ k = 1 /\ p = 1 /\ e = 1
    /\ command_args = <<>> /\ popen_kwargs = no_kwargs /\ extra_dev_args = <<>>
    /\ calls = <<>> /\ printed = <<>> /\ rendered = <<>> /\ error = "none"
    /\ called = <<>> /\ ret = <<>>

\* any command, on any image arguments, registry and vendor flags
Init ==
    /\ cmd \in Commands
    /\ image_names \in DistinctSeqsUpTo(Filters(cmd), MaxFilters)
    /\ opts \in IF cmd = "build"
                THEN {[DefaultOpts EXCEPT !.no_buildkit = b, !.no_cache_from = c] :
                         b \in BOOLEAN, c \in BOOLEAN}
                ELSE {DefaultOpts}
    /\ config \in IF cmd = "pull" THEN PullConfigs ELSE {EmptyConfig}
    /\ \E registered \in Registries : hooks = RegistryFor(hook_name, registered)
    /\ environ \in IF cmd = "build" THEN AmbientEnvs ELSE {BareEnv}
    /\ ambient = environ
    /\ InitLocals

Spec == Init /\ [][Next]_vars

\* build, on any options
BuildArgValues == {"A=1", "B=2"}
AddHostValues == {"db:10.0.0.2"}
TargetValues == {<<>>, <<"">>, <<"production">>}

InitArgs ==
    /\ cmd = "build"
    /\ image_names \in {<<"all">>, <<"openedx-dev">>, <<"openedx">>}
    /\ opts \in [no_cache : BOOLEAN, no_inline_cache : BOOLEAN, no_buildkit : BOOLEAN,
                 no_cache_from : BOOLEAN, build_args : SeqsUpTo(BuildArgValues, MaxArgs),
                 add_hosts : SeqsUpTo(AddHostValues, MaxArgs), target : TargetValues]
    /\ config = EmptyConfig
    /\ hooks = RegistryFor("build-image", <<[plugin |-> "plugin1", hook |-> DictHook(1)]>>)
    /\ environ = BareEnv
    /\ ambient = environ
    /\ InitLocals

NextArgs ==
    \/ Build \/ Return \/ BuildImage \/ BuildBase
    \/ IterPluginHooks \/ IterPluginItems \/ BuildDevArgs \/ BuildDev

SpecArgs == InitArgs /\ [][NextArgs]_vars

\* the catalog functions, applied on their own to any vendor flags
RunKeys == {"RUN_" \o upper(VENDOR_IMAGES[j]) : j \in DOMAIN VENDOR_IMAGES}

AllConfigs == UNION {[S -> {"True", "False", "None"}] : S \in SUBSET RunKeys}

CatalogFilters ==
    {"all", "openedx", "forum", "openedx-dev", "mysql", "smtp", "notes"}

InitCatalog ==
    /\ cmd = "none" /\ image_names = <<>> /\ opts = DefaultOpts
    /\ config \in AllConfigs
    /\ hooks = RegistryFor("build-image", <<>>)
    /\ environ = BareEnv /\ ambient = environ
    /\ InitLocals

CallVendorImageNames ==
    /\ pc = "start"
    /\ called' = <<"vendor_image_names">>
    /\ ret' = vendor_image_names(config)
    /\ pc' = "returned"
    /\ UNCHANGED <<inputs, environ, i, k, p, e, command_args, popen_kwargs,
                   extra_dev_args, calls, printed, rendered, error>>

CallIterImages ==
    /\ pc = "start"
    /\ \E f \in CatalogFilters :
       \E image_list \in {BASE_IMAGE_NAMES, DEV_IMAGE_NAMES, all_image_names(config)} :
          /\ called' = <<"iter_images", f, image_list>>
          /\ ret' = iter_images(config, f, image_list)
    /\ pc' = "returned"
    /\ UNCHANGED <<inputs, environ, i, k, p, e, command_args, popen_kwargs,
                   extra_dev_args, calls, printed, rendered, error>>

NextCatalog == CallVendorImageNames \/ CallIterImages

SpecCatalog == InitCatalog /\ [][NextCatalog]_vars

----------------------------------------------------------------------------
(* The properties.                                                         *)

IsPrefix(s, t) == Len(s) <= Len(t) /\ \A j \in DOMAIN s : s[j] = t[j]

\* the images of the calls issued by loop src for the j-th image argument
ImagesOf(j, src) ==
    LET from(c) == c.fi = j /\ c.src = src
        sel == SelectSeq(calls, from)
    IN  [n \in DOMAIN sel |-> sel[n].img]

Matches(f, name) == f = "all" \/ f = name

\* a vendor image whose RUN_ flag is set, to false
Disabled(name) ==
    /\ name \in Range(VENDOR_IMAGES)
    /\ "RUN_" \o upper(name) \in DOMAIN config
    /\ config["RUN_" \o upper(name)] \in {"False", "None"}

Rank(src) == CASE src = "base" -> 1 [] src = "plugin" -> 2 [] src = "dev" -> 3

\* C1: in a build, for each image argument, the backend build calls come in
\* the order base images, plugin "build-image" images, dev images: no base or
\* plugin build follows a dev build, and no base build follows a plugin build.
C1_BuildCategoryOrder ==
    cmd = "build" =>
        \A a, b \in DOMAIN calls :
            (a < b /\ calls[a].fi = calls[b].fi) =>
                Rank(calls[a].src) <= Rank(calls[b].src)

C1_Witness ==
    /\ cmd = "build" /\ pc = "done" /\ Len(image_names) = 2
    /\ \E a, b, c \in DOMAIN calls :
          /\ a < b /\ b < c
          /\ calls[a].fi = 1 /\ calls[b].fi = 1 /\ calls[c].fi = 1
          /\ calls[a].src = "base" /\ calls[b].src = "plugin" /\ calls[c].src = "dev"
    /\ \E d \in DOMAIN calls : calls[d].fi = 2

Malformed ==
    cmd \in Commands /\
    \E j \in DOMAIN iter_hooks(hook_name) : ~iter_hooks(hook_name)[j].hook.dict

\* C2: when the payload of any plugin for the queried hook is not a mapping,
\* iter_plugin_images yields nothing and fails: no tag template is rendered,
\* no plugin image is built, pulled, pushed or printed, and no image argument
\* gets past its plugin loop, wherever the malformed plugin stands.
C2_AllOrNothing ==
    Malformed =>
        /\ rendered = <<>>
        /\ \A c \in DOMAIN calls : calls[c].src # "plugin"
        /\ \A n \in DOMAIN printed :
              \A j \in DOMAIN iter_hooks(hook_name) :
                 iter_hooks(hook_name)[j].hook.dict =>
                    \A m \in DOMAIN iter_hooks(hook_name)[j].hook.items :
                       printed[n] #
                          render_str(config, iter_hooks(hook_name)[j].hook.items[m][2])
        /\ i = 1 /\ pc \notin {"dev_args", "dev"}

\* C3: once a backend call has failed the handler has stopped and no further
\* backend call is issued: a failed call is the last call of the invocation.
C3_FailFast ==
    \A j \in DOMAIN calls :
        ~calls[j].ok => (j = Len(calls) /\ pc = "failed" /\ error = "BackendExecutionError")

C3_Witness ==
    /\ cmd = "build" /\ image_names = <<"all", "notes">>
    /\ Len(iter_hooks("build-image")) = 1 /\ ~Malformed
    /\ Len(calls) = 1 /\ ~calls[1].ok /\ calls[1].src = "base"
    /\ pc = "failed"

\* C4: vendor_image_names returns the vendor list without the names whose
\* RUN_ flag is set to a false value, and only those, in the catalog's
\* order; with no flag set it returns the whole list.
C4_VendorFilter ==
    called = <<"vendor_image_names">> =>
        /\ Range(ret) = {v \in Range(VENDOR_IMAGES) : ~Disabled(v)}
        /\ \A a, b \in DOMAIN ret :
              a < b => \E x, y \in DOMAIN VENDOR_IMAGES :
                          x < y /\ VENDOR_IMAGES[x] = ret[a] /\ VENDOR_IMAGES[y] = ret[b]
        /\ (DOMAIN config = {} => ret = VENDOR_IMAGES)

C4_Witness ==
    /\ called = <<"vendor_image_names">>
    /\ DOMAIN config = {"RUN_MYSQL", "RUN_NGINX", "RUN_SMTP"}
    /\ config["RUN_MYSQL"] = "False" /\ config["RUN_NGINX"] = "True"
    /\ config["RUN_SMTP"] = "False"
    /\ ret = <<"caddy", "elasticsearch", "mongodb", "nginx", "redis">>

\* what pull is to pull from the catalog for image argument f
ExpectedPull(f) ==
    LET wanted(name) == Matches(f, name) /\ ~Disabled(name)
    IN  SelectSeq(BASE_IMAGE_NAMES \o VENDOR_IMAGES, wanted)

ExpectedPush(f) ==
    LET wanted(name) == Matches(f, name)
    IN  SelectSeq(BASE_IMAGE_NAMES, wanted)

\* the catalog loop of the j-th image argument has run to its end
CatalogWalked(j) ==
    \/ j < i
    \/ pc = "done"
    \/ j = i /\ pc \in {"plugin_hooks", "plugin_items"}
    \/ j = i /\ pc = "failed" /\ error = "InvalidHook"
    \/ j = i /\ \E c \in DOMAIN calls : calls[c].fi = j /\ calls[c].src = "plugin"

\* C5: push pushes the matching base images and then the plugins'
\* "remote-image" matches, never a vendor image of the catalog; pull pulls the
\* matching base images, then the matching vendor images that are not
\* disabled, in the catalog's order, and then the plugins' matches.
C5_PullPushVendors ==
    /\ cmd = "push" =>
          /\ \A c \in DOMAIN calls :
                /\ calls[c].op = "push"
                /\ calls[c].src \in {"catalog", "plugin"}
                /\ calls[c].src = "catalog" => calls[c].img \notin Range(VENDOR_IMAGES)
          /\ \A j \in DOMAIN image_names :
                /\ IsPrefix(ImagesOf(j, "catalog"), ExpectedPush(image_names[j]))
                /\ CatalogWalked(j) =>
                      ImagesOf(j, "catalog") = ExpectedPush(image_names[j])
    /\ cmd = "pull" =>
          /\ \A c \in DOMAIN calls :
                /\ calls[c].op = "pull"
                /\ calls[c].src \in {"catalog", "plugin"}
                /\ calls[c].src = "catalog" => ~Disabled(calls[c].img)
          /\ \A j \in DOMAIN image_names :
                /\ IsPrefix(ImagesOf(j, "catalog"), ExpectedPull(image_names[j]))
                /\ CatalogWalked(j) =>
                      ImagesOf(j, "catalog") = ExpectedPull(image_names[j])
    /\ cmd \in {"pull", "push"} =>
          \A a, b \in DOMAIN calls :
             /\ (a < b /\ calls[a].fi = calls[b].fi /\ calls[b].src = "catalog")
                   => calls[a].src = "catalog"
             /\ calls[a].src = "plugin" =>
                   \E n \in DOMAIN iter_hooks("remote-image") :
                      LET h == iter_hooks("remote-image")[n].hook
                      IN  /\ h.dict
                          /\ \E m \in DOMAIN h.items :
                                /\ h.items[m][1] = calls[a].img
                                /\ Matches(image_names[calls[a].fi], calls[a].img)
                                /\ calls[a].tag = render_str(config, h.items[m][2])

C5_Witness ==
    /\ cmd = "pull" /\ pc = "done" /\ image_names = <<"all", "mysql">>
    /\ Disabled("caddy") /\ Disabled("smtp")
    /\ ImagesOf(1, "catalog") =
          <<"openedx", "forum", "elasticsearch", "mongodb", "mysql", "nginx", "redis">>
    /\ ImagesOf(1, "plugin") = <<"notes", "openedx">>
    /\ ImagesOf(2, "catalog") = <<"mysql">>

ExpectedCacheFrom(f) ==
    IF f = "all"
    THEN <<"--cache-from", get_tag(config, "openedx"),
           "--cache-from", get_tag(config, "forum")>>
    ELSE IF f \in Range(BASE_IMAGE_NAMES) THEN <<"--cache-from", get_tag(config, f)>>
    ELSE <<>>

\* C6: a dev image is built with the USERID build argument, then, unless
\* --no-cache-from is given, one --cache-from pair per base image tag resolved
\* for the image argument, in catalog order, then the general arguments; with
\* --no-cache-from there is no --cache-from token.
C6_DevArgs ==
    \A c \in DOMAIN calls :
        calls[c].src = "dev" =>
            /\ calls[c].args =
                  <<"--build-arg", "USERID=1000">>
                  \o (IF opts.no_cache_from THEN <<>>
                      ELSE ExpectedCacheFrom(image_names[calls[c].fi]))
                  \o command_args
            /\ opts.no_cache_from => "--cache-from" \notin Range(calls[c].args)

C6_Witness ==
    /\ \E c \in DOMAIN calls :
          /\ calls[c].src = "dev" /\ image_names[calls[c].fi] = "all"
          /\ Len(calls[c].args) = 2 + 4 + Len(command_args)
    /\ ~opts.no_cache_from /\ Len(command_args) >= 4

\* C7: command_args is, in this order: "--no-cache" if --no-cache is given
\* (and then no BUILDKIT_INLINE_CACHE=1), else "--build-arg
\* BUILDKIT_INLINE_CACHE=1" unless --no-inline-cache is given; a --build-arg
\* pair per build argument, in the order given; an --add-host pair per host,
\* in the order given; a --target pair only if the target is not empty.
C7_CommandArgs ==
    (cmd = "build" /\ pc # "start") =>
        LET h == IF opts.no_cache THEN 1 ELSE IF opts.no_inline_cache THEN 0 ELSE 2
            nb == Len(opts.build_args)
            nh == Len(opts.add_hosts)
            t == opts.target # <<>> /\ opts.target # <<"">>
        IN  /\ Len(command_args) = h + 2 * nb + 2 * nh + (IF t THEN 2 ELSE 0)
            /\ opts.no_cache =>
                  /\ command_args[1] = "--no-cache"
                  /\ "BUILDKIT_INLINE_CACHE=1" \notin Range(command_args)
            /\ (~opts.no_cache /\ ~opts.no_inline_cache) =>
                  /\ command_args[1] = "--build-arg"
                  /\ command_args[2] = "BUILDKIT_INLINE_CACHE=1"
            /\ (~opts.no_cache /\ opts.no_inline_cache) =>
                  "BUILDKIT_INLINE_CACHE=1" \notin Range(command_args)
            /\ \A j \in 1..nb :
                  /\ command_args[h + 2 * j - 1] = "--build-arg"
                  /\ command_args[h + 2 * j] = opts.build_args[j]
            /\ \A j \in 1..nh :
                  /\ command_args[h + 2 * nb + 2 * j - 1] = "--add-host"
                  /\ command_args[h + 2 * nb + 2 * j] = opts.add_hosts[j]
            /\ t => /\ command_args[Len(command_args) - 1] = "--target"
                    /\ command_args[Len(command_args)] = opts.target[1]
            /\ ~t => "--target" \notin Range(command_args)

C7_Witness ==
    /\ cmd = "build" /\ pc = "done"
    /\ command_args =
          <<"--build-arg", "BUILDKIT_INLINE_CACHE=1", "--build-arg", "B=2",
            "--build-arg", "A=1", "--add-host", "db:10.0.0.2",
            "--target", "production">>

\* C8: BUILDKIT_INLINE_CACHE=1 is for the images that are not dev images: the
\* base and plugin builds get it, a dev image build does not.
C8_InlineCacheNotForDev ==
    \A c \in DOMAIN calls :
        IF calls[c].src = "dev"
        THEN "BUILDKIT_INLINE_CACHE=1" \notin Range(calls[c].args)
        ELSE (~opts.no_cache /\ ~opts.no_inline_cache) =>
                "BUILDKIT_INLINE_CACHE=1" \in Range(calls[c].args)

\* C9: iter_images, for "all", yields every name of the list with its tag, in
\* the list's order; for a name of the list, that name and its tag and
\* nothing else; for any other image argument, nothing.
C9_IterImages ==
    (called # <<>> /\ called[1] = "iter_images") =>
        LET f == called[2]
            image_list == called[3]
        IN  /\ f = "all" =>
                  ret = [j \in DOMAIN image_list |->
                            <<image_list[j], get_tag(config, image_list[j])>>]
            /\ (f # "all" /\ f \in Range(image_list)) =>
                  ret = << <<f, get_tag(config, f)>> >>
            /\ (f # "all" /\ f \notin Range(image_list)) => ret = <<>>

C9_Witness ==
    /\ called # <<>> /\ called[1] = "iter_images" /\ called[2] = "all"
    /\ Disabled("mysql")
    /\ Len(called[3]) = 8 /\ Len(ret) = 8 /\ ret[8] = <<"smtp", "tag:smtp">>

\* C10: unless --no-buildkit is given every backend build call gets an
\* environment that is os.environ with DOCKER_BUILDKIT=1; with --no-buildkit
\* it gets none; os.environ itself is never changed.
C10_BuildkitScoped ==
    /\ environ = ambient
    /\ \A c \in DOMAIN calls :
          calls[c].op = "build" =>
              IF opts.no_buildkit
              THEN DOMAIN calls[c].kwargs = {}
              ELSE /\ DOMAIN calls[c].kwargs = {"env"}
                   /\ LET env == calls[c].kwargs["env"]
                      IN  /\ DOMAIN env = DOMAIN ambient \cup {"DOCKER_BUILDKIT"}
                          /\ env["DOCKER_BUILDKIT"] = "1"
                          /\ \A v \in DOMAIN ambient \ {"DOCKER_BUILDKIT"} :
                                env[v] = ambient[v]

C10_Witness ==
    /\ cmd = "build" /\ pc = "done" /\ ~opts.no_buildkit
    /\ "DOCKER_BUILDKIT" \in DOMAIN ambient /\ ambient["DOCKER_BUILDKIT"] = "0"
    /\ \E a, b, c \in DOMAIN calls :
          calls[a].src = "base" /\ calls[b].src = "plugin" /\ calls[c].src = "dev"

====
